---- MODULE Spec2Model ----
(***************************************************************************)
(* Model of InstallProtonGE.py: one run of main() after another over the   *)
(* same Steam installation.  The state is the compatibilitytools.d         *)
(* directory, the environment the script is started with, and the position *)
(* of the running main().                                                  *)
(*                                                                         *)
(* Strings that the script parses (directory entries, release tags, asset  *)
(* names, the IGNORED_GE_VERSIONS value) are sequences of tokens: the      *)
(* literal "GE-Proton", single decimal digits, "-", ",", " " and opaque    *)
(* rests such as ".tar.gz".  The regular expressions and int() work on     *)
(* these sequences as re.match and int work on the characters.             *)
(***************************************************************************)
EXTENDS Integers, Sequences, FiniteSets, TLC

(***************************************************************************)
(* Bounds of the model.                                                    *)
(***************************************************************************)
MaxEntries == 2     \* entries in compatibilitytools.d at the first run
MaxRuns    == 2     \* runs of main() in a behaviour
MaxKeep    == 2     \* largest VERSIONS_TO_KEEP
MaxChunks  == 1     \* chunks iter_content yields before the stream ends

(***************************************************************************)
(* Tokens and the names used as inputs.                                    *)
(***************************************************************************)
GE == "GE-Proton"

Digits == {"0", "1", "2", "3", "4", "5", "6", "7", "8", "9"}

DigitVal(d) ==
  CASE d = "0" -> 0 [] d = "1" -> 1 [] d = "2" -> 2 [] d = "3" -> 3
    [] d = "4" -> 4 [] d = "5" -> 5 [] d = "6" -> 6 [] d = "7" -> 7
    [] d = "8" -> 8 [] d = "9" -> 9

N_9_10      == <<GE, "9", "-", "1", "0">>
N_10_5      == <<GE, "1", "0", "-", "5">>
N_10_6      == <<GE, "1", "0", "-", "6">>
N_09_10     == <<GE, "0", "9", "-", "1", "0">>
N_9_10_tgz  == <<GE, "9", "-", "1", "0", ".tar.gz">>
N_10_6_tgz  == <<GE, "1", "0", "-", "6", ".tar.gz">>
N_10_6_sum  == <<GE, "1", "0", "-", "6", ".sha512sum">>
N_10_6_utgz == <<GE, "1", "0", "-", "6", "_tar.gz">>
N_nominor   == <<GE, "9", "-">>
README      == <<"README.txt">>
V_TAG       == <<"v", "1">>

\* what may lie in compatibilitytools.d before the first run
EntryNames ==
  {N_9_10, N_09_10, N_10_5, N_10_6, N_9_10_tgz, N_nominor, README}

Range(s) == {s[i] : i \in DOMAIN s}

(***************************************************************************)
(* re.match(VERSION_REGEX, s): "GE-Proton(\d+)-(\d+)" anchored at the      *)
(* start only; whatever follows the second digit run is not looked at.     *)
(***************************************************************************)
RECURSIVE DigitRun(_, _)
\* number of consecutive digit tokens of s from position i on (greedy \d+)
DigitRun(s, i) ==
  IF i <= Len(s) /\ s[i] \in Digits THEN 1 + DigitRun(s, i + 1) ELSE 0

RECURSIVE ParseInt(_)
\* int() of a non-empty run of decimal digits
ParseInt(ds) ==
  IF Len(ds) = 0 THEN 0
  ELSE 10 * ParseInt(SubSeq(ds, 1, Len(ds) - 1)) + DigitVal(ds[Len(ds)])

\* position after the match of GE-Proton\d+-\d+ at the start of s, 0 if none
VersionMatchEnd(s) ==
  IF Len(s) >= 1 /\ s[1] = GE
  THEN LET d1 == DigitRun(s, 2)
           d2 == DigitRun(s, 3 + d1)
       IN IF d1 >= 1 /\ 2 + d1 <= Len(s) /\ s[2 + d1] = "-" /\ d2 >= 1
          THEN 3 + d1 + d2
          ELSE 0
  ELSE 0

VersionMatches(s) == VersionMatchEnd(s) # 0

Group1(s) == SubSeq(s, 2, 1 + DigitRun(s, 2))

Group2(s) ==
  LET d1 == DigitRun(s, 2)
  IN SubSeq(s, 3 + d1, 2 + d1 + DigitRun(s, 3 + d1))

\* re.match("GE-Proton\d+-\d+.tar.gz", s): the "." stands for any character
AssetMatches(s) ==
  LET e == VersionMatchEnd(s)
  IN e # 0 /\ e <= Len(s) /\ s[e] \in {".tar.gz", "_tar.gz"}

(***************************************************************************)
(* State.                                                                  *)
(***************************************************************************)
VARIABLES
  env_ignored,         \* os.environ["IGNORED_GE_VERSIONS"]
  VERSIONS_TO_KEEP,    \* int(os.environ["VERSIONS_TO_KEEP"])
  paths,               \* which of the root, compat folder, config file exist
  compat,              \* compatibilitytools.d: entry name -> "dir" or "file"
  pc,                  \* position of the running main()
  err,                 \* the exception the run ended with, or "none"
  installed_versions,  \* main's installed_versions
  latest_release,      \* main's latest_release
  matches,             \* the list handed to any() at line 108
  tmp_file,            \* the SpooledTemporaryFile: "none", "open", "closed"
  body,                \* the archive the download URL is serving
  chunks,              \* chunks held by the open tmp_file
  downloaded,          \* the iter_content loop ran to its end after a 2xx
  extracted,           \* names extractall has written in this run
  deleted,             \* names os.remove has removed in this run
  to_delete,           \* the list passed to remove_expired_versions
  api_requests,        \* GETs to LATEST_RELEASE_ENDPOINT in this run
  download_requests,   \* GETs to the download URL in this run
  compat0,             \* compat when this run started
  partial,             \* names written by a run whose extraction failed
  runs                 \* number of the current run

vars ==
  <<env_ignored, VERSIONS_TO_KEEP, paths, compat, pc, err,
    installed_versions, latest_release, matches, tmp_file, body, chunks,
    downloaded, extracted, deleted, to_delete, api_requests,
    download_requests, compat0, partial, runs>>

(***************************************************************************)
(* The environment values, lines 9-12.                                     *)
(***************************************************************************)
\* str.replace(" ", "")
RECURSIVE StripSpaces(_)
StripSpaces(s) ==
  IF Len(s) = 0 THEN <<>>
  ELSE IF s[1] = " " THEN StripSpaces(Tail(s))
       ELSE <<s[1]>> \o StripSpaces(Tail(s))

\* str.split(","): the pieces between the commas, one piece more than commas
RECURSIVE SplitComma(_, _)
SplitComma(s, cur) ==
  IF Len(s) = 0 THEN <<cur>>
  ELSE IF s[1] = "," THEN <<cur>> \o SplitComma(Tail(s), <<>>)
       ELSE SplitComma(Tail(s), Append(cur, s[1]))

\* values of IGNORED_GE_VERSIONS the script is started with
IgnoredEnvValues ==
  { <<>>,
    N_9_10_tgz,
    N_9_10 \o <<",", " ">> \o N_10_5 }

KeepValues == 0 .. MaxKeep

\* line 12: never the empty list, "" splits into [""]
IGNORED_VERSIONS == SplitComma(StripSpaces(env_ignored), <<>>)

(***************************************************************************)
(* Python values.  A str is [type |-> "str", value |-> tokens], a dict is  *)
(* a record with type "dict" and its keys.  An operation that may raise    *)
(* returns [exc |-> name or "none", value |-> result].                     *)
(***************************************************************************)
PyStr(s) == [type |-> "str", value |-> s]

Ok(v) == [exc |-> "none", value |-> v]

Raise(e, v) == [exc |-> e, value |-> v]

COMPAT == "compatibilitytools.d"

\* os.path.join(compat_folder, item)
JoinPath(folder, item) == <<folder, item>>

(***************************************************************************)
(* get_installed_versions, lines 49-64.                                    *)
(***************************************************************************)
Descriptor(item) ==
  [type |-> "dict", full_name |-> item, major |-> ParseInt(Group1(item)),
   minor |-> ParseInt(Group2(item)), full_path |-> JoinPath(COMPAT, item)]

\* the key of sorted(): the tuple (major, minor), compared as tuples are
KeyLess(a, b) ==
  a.major < b.major \/ (a.major = b.major /\ a.minor < b.minor)

\* insert x behind every element whose key is not greater (stable)
RECURSIVE InsertSorted(_, _)
InsertSorted(sorted, x) ==
  IF Len(sorted) = 0 THEN <<x>>
  ELSE IF KeyLess(x, sorted[1]) THEN <<x>> \o sorted
       ELSE <<sorted[1]>> \o InsertSorted(Tail(sorted), x)

RECURSIVE Sorted(_)
Sorted(items) ==
  IF Len(items) = 0 THEN <<>>
  ELSE InsertSorted(Sorted(SubSeq(items, 1, Len(items) - 1)), items[Len(items)])

RECURSIVE FinalItems(_)
\* the loop of lines 54-62 over the listing
FinalItems(listing) ==
  IF Len(listing) = 0 THEN <<>>
  ELSE IF VersionMatches(listing[1])
       THEN <<Descriptor(listing[1])>> \o FinalItems(Tail(listing))
       ELSE FinalItems(Tail(listing))

get_installed_versions(listing) == Sorted(FinalItems(listing))

\* compare_versions with the test of line 67 turned round
compare_versions_guard(lhs, rhs) ==
  IF "major" \in DOMAIN lhs \/ "minor" \in DOMAIN rhs
  THEN FALSE
  ELSE lhs.major = rhs.major /\ lhs.minor = rhs.minor

\* compare_versions looking at the major only
compare_versions_major(lhs, rhs) ==
  IF "major" \notin DOMAIN lhs \/ "minor" \notin DOMAIN rhs
  THEN FALSE
  ELSE lhs.major = rhs.major

(***************************************************************************)
(* compare_versions, lines 66-71.                                          *)
(***************************************************************************)
compare_versions(lhs, rhs) ==
  IF "major" \notin DOMAIN lhs \/ "minor" \notin DOMAIN rhs
  THEN FALSE
  ELSE lhs.major = rhs.major /\ lhs.minor = rhs.minor

\* the list comprehension of line 108
CompareAll(latest, installed) ==
  [i \in DOMAIN installed |-> compare_versions(latest, installed[i])]

(***************************************************************************)
(* remove_ignored_versions, lines 73-81.  item["full_name"] on a str       *)
(* raises TypeError (string indices must be integers).                     *)
(***************************************************************************)
RECURSIVE RemoveIgnoredFrom(_, _)
RemoveIgnoredFrom(original_list, new_list) ==
  IF Len(original_list) = 0 THEN Ok(new_list)
  ELSE LET item == original_list[1]
       IN IF item.type # "dict" THEN Raise("TypeError", new_list)
          ELSE IF item.full_name \notin Range(IGNORED_VERSIONS)
               THEN RemoveIgnoredFrom(Tail(original_list),
                                      Append(new_list, item))
               ELSE RemoveIgnoredFrom(Tail(original_list), new_list)

remove_ignored_versions(original_list) ==
  RemoveIgnoredFrom(original_list, <<>>)

(***************************************************************************)
(* The slice list[start:] of line 117, with Python's negative indices.     *)
(***************************************************************************)
SliceFrom(list, start) ==
  LET n == Len(list)
      s == IF start < 0 THEN (IF n + start < 0 THEN 0 ELSE n + start)
           ELSE IF start > n THEN n ELSE start
  IN SubSeq(list, s + 1, n)

(***************************************************************************)
(* remove_expired_versions, lines 83-86, on the directory fs (a function   *)
(* from the names of its entries to "dir" or "file").  os.remove unlinks   *)
(* a file and raises on a directory or a missing entry.                    *)
(***************************************************************************)
Without(fs, name) == [n \in (DOMAIN fs) \ {name} |-> fs[n]]

RECURSIVE remove_expired_versions(_, _)
remove_expired_versions(versions_to_delete, fs) ==
  IF Len(versions_to_delete) = 0 THEN Ok(fs)
  ELSE LET version == versions_to_delete[1]
       IN IF version.type # "dict" THEN Raise("TypeError", fs)
          ELSE LET name == version.full_path[2]
               IN IF name \notin DOMAIN fs
                  THEN Raise("FileNotFoundError", fs)
                  ELSE IF fs[name] = "dir"
                       THEN Raise("IsADirectoryError", fs)
                       ELSE remove_expired_versions(Tail(versions_to_delete),
                                                    Without(fs, name))

\* get_paths without the test of the config file
get_paths_noconfig(existing) ==
  IF "root" \notin existing \/ "compat" \notin existing
  THEN Raise("Exception", <<>>)
  ELSE Ok(<<"root", COMPAT, "config/config.vdf">>)

(***************************************************************************)
(* get_paths, lines 21-34: the three os.path.exists tests.                 *)
(***************************************************************************)
get_paths(existing) ==
  IF "root" \notin existing \/ "compat" \notin existing
     \/ "config" \notin existing
  THEN Raise("Exception", <<>>)
  ELSE Ok(<<"root", COMPAT, "config/config.vdf">>)

(***************************************************************************)
(* get_latest_release, lines 36-47, on what the endpoint answers.          *)
(***************************************************************************)
RECURSIVE MatchingAssets(_)
\* the list comprehension of line 46
MatchingAssets(assets) ==
  IF Len(assets) = 0 THEN <<>>
  ELSE IF AssetMatches(assets[1])
       THEN <<<<"url", assets[1]>>>> \o MatchingAssets(Tail(assets))
       ELSE MatchingAssets(Tail(assets))

get_latest_release(response) ==
  IF ~response.connected THEN Raise("ConnectionError", <<>>)
  ELSE IF response.status >= 400 THEN Raise("HTTPError", <<>>)
  ELSE IF ~VersionMatches(response.tag_name)
       THEN Raise("AttributeError", <<>>)
  ELSE IF Len(MatchingAssets(response.assets)) = 0
       THEN Raise("IndexError", <<>>)
  ELSE Ok([type |-> "dict", full_name |-> response.tag_name,
           major |-> ParseInt(Group1(response.tag_name)),
           minor |-> ParseInt(Group2(response.tag_name)),
           download_url |-> MatchingAssets(response.assets)[1]])

\* answers of the release endpoint
TagNames == {N_10_6, N_9_10, V_TAG}

AssetLists == { <<N_10_6_sum, N_10_6_tgz>>, <<N_10_6_sum>>, <<N_10_6_utgz>> }

Responses ==
  { [connected |-> FALSE, status |-> 0, tag_name |-> <<>>, assets |-> <<>>] }
  \cup { [connected |-> TRUE, status |-> 404, tag_name |-> <<>>,
          assets |-> <<>>] }
  \cup { [connected |-> TRUE, status |-> 200, tag_name |-> t, assets |-> a] :
           t \in TagNames, a \in AssetLists }

(***************************************************************************)
(* What the download URL serves: the top-level members of the archive in   *)
(* order and how many of them can be read before the archive breaks off    *)
(* (all of them when intact).                                              *)
(***************************************************************************)
MemberLists ==
  { << [name |-> N_10_6, kind |-> "dir"], [name |-> README, kind |-> "file"] >>,
    << [name |-> README, kind |-> "dir"] >> }

Bodies ==
  UNION { { [members |-> m, readable |-> Len(m), intact |-> TRUE] }
          \cup { [members |-> m, readable |-> r, intact |-> FALSE] :
                   r \in 0 .. Len(m) }
          : m \in MemberLists }

NoBody == [members |-> <<>>, readable |-> 0, intact |-> FALSE]

NoRelease == [type |-> "none"]

(***************************************************************************)
(* The directory before the first run.                                     *)
(***************************************************************************)
KindOfEntry(name) ==
  IF name \in {N_9_10_tgz, README} THEN "file" ELSE "dir"

InitialDirs ==
  { [n \in S |-> KindOfEntry(n)] :
      S \in {T \in SUBSET EntryNames : Cardinality(T) <= MaxEntries} }

PathSets ==
  { {}, {"root"}, {"root", "compat"}, {"root", "config"},
    {"root", "compat", "config"} }

\* os.listdir: the entries in arbitrary order
Listings(fs) ==
  LET n == Cardinality(DOMAIN fs)
  IN { l \in [1 .. n -> DOMAIN fs] : Range(l) = DOMAIN fs }

RunLocalsInit ==
  /\ pc = "get_paths"
  /\ err = "none"
  /\ installed_versions = <<>>
  /\ latest_release = NoRelease
  /\ matches = <<>>
  /\ tmp_file = "none"
  /\ body = NoBody
  /\ chunks = 0
  /\ downloaded = FALSE
  /\ extracted = <<>>
  /\ deleted = {}
  /\ to_delete = <<>>
  /\ api_requests = 0
  /\ download_requests = 0

Init ==
  /\ env_ignored \in IgnoredEnvValues
  /\ VERSIONS_TO_KEEP \in KeepValues
  /\ paths \in PathSets
  /\ compat \in InitialDirs
  /\ ("compat" \notin paths => DOMAIN compat = {})
  /\ compat0 = compat
  /\ partial = {}
  /\ runs = 1
  /\ RunLocalsInit

envVars == <<env_ignored, VERSIONS_TO_KEEP, paths>>

histVars == <<compat0, partial, runs>>

(***************************************************************************)
(* main, line 100.                                                         *)
(***************************************************************************)
GetPaths ==
  /\ pc = "get_paths"
  /\ LET r == get_paths(paths)
     IN IF r.exc # "none"
        THEN pc' = "halt" /\ err' = r.exc
        ELSE pc' = "get_installed_versions" /\ err' = err
  /\ UNCHANGED <<envVars, histVars, compat, installed_versions,
                 latest_release, matches, tmp_file, body, chunks, downloaded,
                 extracted, deleted, to_delete, api_requests,
                 download_requests>>

(***************************************************************************)
(* main, line 103.                                                         *)
(***************************************************************************)
GetInstalledVersions ==
  /\ pc = "get_installed_versions"
  /\ \E listing \in Listings(compat) :
       installed_versions' = get_installed_versions(listing)
  /\ pc' = "get_latest_release"
  /\ UNCHANGED <<envVars, histVars, compat, err, latest_release, matches,
                 tmp_file, body, chunks, downloaded, extracted, deleted,
                 to_delete, api_requests, download_requests>>

(***************************************************************************)
(* main, line 105.                                                         *)
(***************************************************************************)
GetLatestRelease ==
  /\ pc = "get_latest_release"
  /\ api_requests' = api_requests + 1
  /\ \E response \in Responses :
       LET r == get_latest_release(response)
       IN IF r.exc # "none"
          THEN pc' = "halt" /\ err' = r.exc /\ UNCHANGED latest_release
          ELSE pc' = "compare" /\ err' = err /\ latest_release' = r.value
  /\ UNCHANGED <<envVars, histVars, compat, installed_versions,
                 matches, tmp_file, body, chunks, downloaded, extracted,
                 deleted, to_delete, download_requests>>

(***************************************************************************)
(* main, lines 108-113.                                                    *)
(***************************************************************************)
CheckInstalled ==
  /\ pc = "compare"
  /\ matches' = CompareAll(latest_release, installed_versions)
  /\ IF \E i \in DOMAIN matches' : matches'[i]
     THEN pc' = "halt"
     ELSE pc' = "install"
  /\ UNCHANGED <<envVars, histVars, compat, err, installed_versions,
                 latest_release, tmp_file, body, chunks,
                 downloaded, extracted, deleted, to_delete, api_requests,
                 download_requests>>

\* install_latest_version opening the archive on the response instead of
\* the filled buffer
InstallRequest_streaming ==
  /\ pc = "install"
  /\ download_requests' = download_requests + 1
  /\ \/ /\ \E e \in {"ConnectionError", "HTTPError"} : err' = e
        /\ tmp_file' = "closed"
        /\ pc' = "halt"
        /\ UNCHANGED body
     \/ /\ body' \in Bodies
        /\ tmp_file' = "open"
        /\ pc' = "open_tar"
        /\ UNCHANGED err
  /\ UNCHANGED <<envVars, histVars, compat, installed_versions,
                 latest_release, matches, chunks, downloaded, extracted,
                 deleted, to_delete, api_requests>>

(***************************************************************************)
(* install_latest_version, lines 89-91: the buffer is created, the request *)
(* is sent and its status checked.  Leaving the with block on an exception *)
(* closes the buffer.                                                      *)
(***************************************************************************)
InstallRequest ==
  /\ pc = "install"
  /\ download_requests' = download_requests + 1
  /\ \/ /\ \E e \in {"ConnectionError", "HTTPError"} : err' = e
        /\ tmp_file' = "closed"
        /\ pc' = "halt"
        /\ UNCHANGED body
     \/ /\ body' \in Bodies
        /\ tmp_file' = "open"
        /\ pc' = "download"
        /\ UNCHANGED err
  /\ UNCHANGED <<envVars, histVars, compat, installed_versions,
                 latest_release, matches, chunks, downloaded, extracted,
                 deleted, to_delete, api_requests>>

(***************************************************************************)
(* install_latest_version, lines 92-93: one turn of the iter_content loop: *)
(* a chunk is written, the connection breaks, or the stream has ended.     *)
(***************************************************************************)
InstallChunk ==
  /\ pc = "download"
  /\ \/ /\ chunks < MaxChunks
        /\ chunks' = chunks + 1
        /\ UNCHANGED <<pc, err, tmp_file, downloaded>>
     \/ /\ chunks < MaxChunks
        /\ err' = "ChunkedEncodingError"
        /\ tmp_file' = "closed"
        /\ chunks' = 0
        /\ pc' = "halt"
        /\ UNCHANGED downloaded
     \/ /\ chunks >= 1
        /\ downloaded' = TRUE
        /\ pc' = "open_tar"
        /\ UNCHANGED <<chunks, err, tmp_file>>
  /\ UNCHANGED <<envVars, histVars, compat, installed_versions,
                 latest_release, matches, body, extracted, deleted, to_delete,
                 api_requests, download_requests>>

(***************************************************************************)
(* install_latest_version, lines 95-96: tarfile.open reads the first       *)
(* header of the buffer.                                                   *)
(***************************************************************************)
InstallOpenTar ==
  /\ pc = "open_tar"
  /\ IF ~body.intact /\ body.readable = 0
     THEN /\ err' = "ReadError"
          /\ tmp_file' = "closed"
          /\ chunks' = 0
          /\ pc' = "halt"
     ELSE pc' = "extract" /\ UNCHANGED <<err, tmp_file, chunks>>
  /\ UNCHANGED <<envVars, histVars, compat, installed_versions,
                 latest_release, matches, body, downloaded, extracted,
                 deleted, to_delete, api_requests, download_requests>>

(***************************************************************************)
(* tar_file.extractall, line 97: one member is written into the compat     *)
(* folder.  A member meeting an entry of the other kind cannot be written. *)
(***************************************************************************)
Put(fs, name, kind) ==
  [n \in (DOMAIN fs) \cup {name} |-> IF n = name THEN kind ELSE fs[n]]

ExtractMember(fs, member) ==
  IF member.name \in DOMAIN fs /\ fs[member.name] # member.kind
  THEN Raise("OSError", fs)
  ELSE Ok(Put(fs, member.name, member.kind))

\* install_latest_version restoring the directory when extraction fails
InstallExtract_rollback ==
  /\ pc = "extract"
  /\ IF Len(extracted) < body.readable
     THEN LET r == ExtractMember(compat, body.members[Len(extracted) + 1])
          IN IF r.exc # "none"
             THEN /\ err' = r.exc
                  /\ tmp_file' = "closed"
                  /\ chunks' = 0
                  /\ pc' = "halt"
                  /\ partial' = partial \cup Range(extracted)
                  /\ compat' = compat0
                  /\ UNCHANGED extracted
             ELSE /\ compat' = r.value
                  /\ extracted' =
                       Append(extracted, body.members[Len(extracted) + 1].name)
                  /\ UNCHANGED <<err, tmp_file, chunks, pc, partial>>
     ELSE IF ~body.intact
          THEN /\ err' = "ReadError"
               /\ tmp_file' = "closed"
               /\ chunks' = 0
               /\ pc' = "halt"
               /\ partial' = partial \cup Range(extracted)
               /\ compat' = compat0
               /\ UNCHANGED extracted
          ELSE /\ tmp_file' = "closed"
               /\ chunks' = 0
               /\ pc' = "prune"
               /\ UNCHANGED <<err, compat, extracted, partial>>
  /\ UNCHANGED <<envVars, compat0, runs, installed_versions,
                 latest_release, matches, body, downloaded, deleted,
                 to_delete, api_requests, download_requests>>

(***************************************************************************)
(* install_latest_version, line 97: extractall reads and writes member by  *)
(* member; what it raises leaves main through both with blocks, nothing    *)
(* written so far is removed.                                              *)
(***************************************************************************)
InstallExtract ==
  /\ pc = "extract"
  /\ IF Len(extracted) < body.readable
     THEN LET r == ExtractMember(compat, body.members[Len(extracted) + 1])
          IN IF r.exc # "none"
             THEN /\ err' = r.exc
                  /\ tmp_file' = "closed"
                  /\ chunks' = 0
                  /\ pc' = "halt"
                  /\ partial' = partial \cup Range(extracted)
                  /\ UNCHANGED <<compat, extracted>>
             ELSE /\ compat' = r.value
                  /\ extracted' =
                       Append(extracted, body.members[Len(extracted) + 1].name)
                  /\ UNCHANGED <<err, tmp_file, chunks, pc, partial>>
     ELSE IF ~body.intact
          THEN /\ err' = "ReadError"
               /\ tmp_file' = "closed"
               /\ chunks' = 0
               /\ pc' = "halt"
               /\ partial' = partial \cup Range(extracted)
               /\ UNCHANGED <<compat, extracted>>
          ELSE /\ tmp_file' = "closed"
               /\ chunks' = 0
               /\ pc' = "prune"
               /\ UNCHANGED <<err, compat, extracted, partial>>
  /\ UNCHANGED <<envVars, compat0, runs, installed_versions,
                 latest_release, matches, body, downloaded, deleted,
                 to_delete, api_requests, download_requests>>

\* main without line 116: the slice is taken of the scanned inventory
Prune_unfiltered ==
  /\ pc = "prune"
  /\ pc' = "halt"
  /\ LET candidates == SliceFrom(installed_versions, VERSIONS_TO_KEEP - 1)
     IN IF Len(candidates) > 0
        THEN LET r == remove_expired_versions(candidates, compat)
             IN /\ to_delete' = candidates
                /\ compat' = r.value
                /\ deleted' = (DOMAIN compat) \ (DOMAIN r.value)
                /\ err' = r.exc
        ELSE UNCHANGED <<compat, to_delete, deleted, err>>
  /\ UNCHANGED <<envVars, histVars, installed_versions,
                 latest_release, matches, tmp_file, body, chunks, downloaded,
                 extracted, api_requests, download_requests>>

(***************************************************************************)
(* main, lines 116-122.  Line 116 hands the list of ignored names, a list  *)
(* of str, to remove_ignored_versions.                                     *)
(***************************************************************************)
Prune ==
  /\ pc = "prune"
  /\ pc' = "halt"
  /\ LET new_available_list ==
           remove_ignored_versions(
             [i \in DOMAIN IGNORED_VERSIONS |-> PyStr(IGNORED_VERSIONS[i])])
     IN IF new_available_list.exc # "none"
        THEN /\ err' = new_available_list.exc
             /\ UNCHANGED <<compat, to_delete, deleted>>
        ELSE LET candidates ==
                   SliceFrom(new_available_list.value, VERSIONS_TO_KEEP - 1)
             IN IF Len(candidates) > 0
                THEN LET r == remove_expired_versions(candidates, compat)
                     IN /\ to_delete' = candidates
                        /\ compat' = r.value
                        /\ deleted' = (DOMAIN compat) \ (DOMAIN r.value)
                        /\ err' = r.exc
                ELSE UNCHANGED <<compat, to_delete, deleted, err>>
  /\ UNCHANGED <<envVars, histVars, installed_versions,
                 latest_release, matches, tmp_file, body, chunks, downloaded,
                 extracted, api_requests, download_requests>>

(***************************************************************************)
(* The script is started again on the same installation.                   *)
(***************************************************************************)
StartRun ==
  /\ pc = "halt"
  /\ runs < MaxRuns
  /\ runs' = runs + 1
  /\ compat0' = compat
  /\ pc' = "get_paths"
  /\ err' = "none"
  /\ installed_versions' = <<>>
  /\ latest_release' = NoRelease
  /\ matches' = <<>>
  /\ tmp_file' = "none"
  /\ body' = NoBody
  /\ chunks' = 0
  /\ downloaded' = FALSE
  /\ extracted' = <<>>
  /\ deleted' = {}
  /\ to_delete' = <<>>
  /\ api_requests' = 0
  /\ download_requests' = 0
  /\ UNCHANGED <<envVars, compat, partial>>

Next ==
  \/ GetPaths
  \/ GetInstalledVersions
  \/ GetLatestRelease
  \/ CheckInstalled
  \/ InstallRequest
  \/ InstallChunk
  \/ InstallOpenTar
  \/ InstallExtract
  \/ Prune
  \/ StartRun

Spec == Init /\ [][Next]_vars

TypeOK ==
  /\ pc \in {"get_paths", "get_installed_versions", "get_latest_release",
             "compare", "install", "download", "open_tar", "extract",
             "prune", "halt"}
  /\ tmp_file \in {"none", "open", "closed"}
  /\ runs \in 1 .. MaxRuns

(***************************************************************************)
(* Notions the properties below are stated with.                           *)
(***************************************************************************)
Fetched == latest_release.type = "dict"

SameVersion(a, b) == a.major = b.major /\ a.minor = b.minor

\* the scanned inventory holds the (major, minor) of the fetched release
LatestIsInstalled ==
  /\ Fetched
  /\ \E i \in DOMAIN installed_versions :
       SameVersion(installed_versions[i], latest_release)

\* nothing the run could do to the directory or the download URL has happened
Untouched ==
  /\ download_requests = 0
  /\ extracted = <<>>
  /\ deleted = {}
  /\ compat = compat0

DeletionErrors == {"IsADirectoryError", "FileNotFoundError"}

\* the run is over, its download and extraction succeeded and no os.remove failed
InstalledAndOver ==
  /\ pc = "halt"
  /\ downloaded
  /\ body.intact
  /\ Len(extracted) = Len(body.members)
  /\ err \notin DeletionErrors \cup {"OSError"}

\* the whole name is GE-Proton<major>-<minor>
HasVersionForm(name) == VersionMatchEnd(name) = Len(name) + 1

(***************************************************************************)
(* C1: whenever the scanned inventory contains a version with the (major,  *)
(* minor) of the fetched latest release, the run makes no download         *)
(* request, extracts nothing, deletes nothing, leaves the compat directory *)
(* as it was at the start of the run and returns without an exception.     *)
(***************************************************************************)
C1_NoDownloadWhenInstalled ==
  LatestIsInstalled =>
    /\ Untouched
    /\ pc \in {"compare", "halt"}
    /\ err = "none"

C1_Witness ==
  /\ pc = "halt"
  /\ LatestIsInstalled
  /\ Len(installed_versions) >= 2
  /\ Untouched

(***************************************************************************)
(* C6: compare_versions(lhs, rhs) is true exactly when the majors and the  *)
(* minors are equal, whatever full_name and path are, and the same with    *)
(* the arguments swapped; for the fetched release against every installed  *)
(* version and for every pair of installed versions.                       *)
(***************************************************************************)
C6_CompareIsMajorMinorEquality ==
  /\ Fetched =>
       \A i \in DOMAIN installed_versions :
         /\ compare_versions(latest_release, installed_versions[i])
              <=> SameVersion(latest_release, installed_versions[i])
         /\ compare_versions(installed_versions[i], latest_release)
              <=> compare_versions(latest_release, installed_versions[i])
  /\ \A i, j \in DOMAIN installed_versions :
       /\ compare_versions(installed_versions[i], installed_versions[j])
            <=> SameVersion(installed_versions[i], installed_versions[j])
       /\ compare_versions(installed_versions[i], installed_versions[j])
            <=> compare_versions(installed_versions[j], installed_versions[i])
  /\ pc \notin {"get_paths", "get_installed_versions", "get_latest_release",
                "compare"} /\ Fetched =>
       \A i \in DOMAIN installed_versions :
         matches[i] <=> SameVersion(latest_release, installed_versions[i])

\* same major, different minor gives false next to a true comparison
C6_Witness ==
  /\ pc = "halt"
  /\ Fetched
  /\ \E i, j \in DOMAIN matches :
       /\ matches[i]
       /\ ~matches[j]
       /\ installed_versions[j].major = latest_release.major

\* the run got past the installer to line 116
PruneRan ==
  /\ pc = "halt"
  /\ downloaded
  /\ body.intact
  /\ Len(extracted) = Len(body.members)

(***************************************************************************)
(* C2: no version whose full name is in IGNORED_VERSIONS is among the      *)
(* candidates passed to remove_expired_versions, none is removed by        *)
(* os.remove, and every ignored entry present when the run started is      *)
(* still present, for every VERSIONS_TO_KEEP and every ignore list.        *)
(***************************************************************************)
C2_IgnoredNeverDeleted ==
  /\ \A i \in DOMAIN to_delete :
       to_delete[i].full_name \notin Range(IGNORED_VERSIONS)
  /\ deleted \cap Range(IGNORED_VERSIONS) = {}
  /\ \A name \in (DOMAIN compat0) \cap Range(IGNORED_VERSIONS) :
       name \in DOMAIN compat

\* an old ignored version is installed, more versions than are to be kept
\* are installed, and the run has been through lines 116-122
C2_Witness ==
  /\ PruneRan
  /\ Len(installed_versions) + 1 > VERSIONS_TO_KEEP
  /\ \E i \in DOMAIN installed_versions :
       /\ installed_versions[i].full_name \in Range(IGNORED_VERSIONS)
       /\ KeyLess(installed_versions[i], latest_release)
       /\ installed_versions[i].full_name \in DOMAIN compat

(***************************************************************************)
(* C7: a download request or a change of the compat directory happens only *)
(* in a run whose three paths exist and whose release fetch returned a     *)
(* release (2xx status, tag matched by the version pattern, a matching     *)
(* .tar.gz asset); a finished run in which a path is missing or the fetch  *)
(* failed has ended with an exception, no download request and the         *)
(* directory unchanged; with a missing path no request is made at all.     *)
(***************************************************************************)
PathsValid == {"root", "compat", "config"} \subseteq paths

C7_NothingBeforeValidationAndFetch ==
  /\ ~Untouched =>
       /\ PathsValid
       /\ Fetched
       /\ VersionMatches(latest_release.full_name)
       /\ AssetMatches(latest_release.download_url[2])
  /\ (pc = "halt" /\ (~PathsValid \/ ~Fetched)) =>
       /\ err # "none"
       /\ Untouched
  /\ ~PathsValid => api_requests = 0 /\ download_requests = 0

\* a run stopped by a release without a matching asset
C7_Witness ==
  /\ pc = "halt"
  /\ runs = 2
  /\ PathsValid
  /\ ~Fetched
  /\ api_requests = 1
  /\ err = "IndexError"
  /\ Untouched

(***************************************************************************)
(* C8: install_latest_version writes into the compat directory only after  *)
(* the iter_content loop has run to its end on a 2xx response; an HTTP or  *)
(* connection error of the download leaves the directory as it was; and    *)
(* once install_latest_version has returned or raised, the temporary       *)
(* buffer is closed.                                                       *)
(***************************************************************************)
C8_ExtractAfterDownloadAndBufferClosed ==
  /\ (extracted # <<>> \/ compat # compat0) => downloaded
  /\ err \in {"HTTPError", "ConnectionError", "ChunkedEncodingError"} =>
       compat = compat0 /\ extracted = <<>>
  /\ pc \in {"prune", "halt"} => tmp_file # "open"
  /\ (pc \in {"prune", "halt"} /\ download_requests > 0) =>
       tmp_file = "closed"

\* install_latest_version has returned after writing two members
C8_Witness ==
  /\ download_requests = 1
  /\ tmp_file = "closed"
  /\ pc = "prune"
  /\ downloaded
  /\ Len(extracted) = 2
  /\ compat # compat0

(***************************************************************************)
(* C9: a run whose extraction stops with an archive-format error ends in   *)
(* that error without pruning and with every entry it had extracted still  *)
(* in the compat directory; and a later run whose scan finds such an entry *)
(* with the (major, minor) of the fetched release makes no download        *)
(* request and returns normally.                                           *)
(***************************************************************************)
C9_PartialExtractionStays ==
  /\ (pc = "halt" /\ err = "ReadError") =>
       /\ to_delete = <<>>
       /\ deleted = {}
       /\ \A name \in Range(extracted) : name \in DOMAIN compat
       /\ Range(extracted) \subseteq partial
  /\ (Fetched /\ \E i \in DOMAIN installed_versions :
                   /\ installed_versions[i].full_name \in partial
                   /\ installed_versions[i].full_name \in DOMAIN compat0
                   /\ SameVersion(installed_versions[i], latest_release)) =>
       /\ download_requests = 0
       /\ pc \in {"compare", "halt"}
       /\ err = "none"

\* the second run returns because of a directory the first run left half
\* extracted
C9_Witness ==
  /\ runs = 2
  /\ pc = "halt"
  /\ err = "none"
  /\ download_requests = 0
  /\ Fetched
  /\ latest_release.full_name \in partial
  /\ latest_release.full_name \in DOMAIN compat0
  /\ \E i \in DOMAIN installed_versions :
       installed_versions[i].full_name = latest_release.full_name

(***************************************************************************)
(* The versions in the compat directory and their age.                     *)
(***************************************************************************)
PresentVersions == {name \in DOMAIN compat : VersionMatches(name)}

\* number of present versions with a greater (major, minor)
NewerCount(name) ==
  Cardinality({other \in PresentVersions :
                 KeyLess(Descriptor(name), Descriptor(other))})

(***************************************************************************)
(* C3: after a run that installed a new release and is over without a      *)
(* failed deletion, every version still in the compat directory is in the  *)
(* ignore list or among the VERSIONS_TO_KEEP most recent ones, so at most  *)
(* VERSIONS_TO_KEEP versions outside the ignore list remain.               *)
(***************************************************************************)
C3_RetentionAfterInstall ==
  InstalledAndOver =>
    /\ \A name \in PresentVersions :
         name \in Range(IGNORED_VERSIONS) \/ NewerCount(name) < VERSIONS_TO_KEEP
    /\ Cardinality(PresentVersions \ Range(IGNORED_VERSIONS))
         <= VERSIONS_TO_KEEP

(***************************************************************************)
(* C4: a run that installed a new release ends normally or with the error  *)
(* of a failed deletion; remove_expired_versions was handed the entries of *)
(* the ignore-filtered list behind its first VERSIONS_TO_KEEP - 1, and     *)
(* unless a deletion failed none of them is left in the compat directory.  *)
(***************************************************************************)
C4_PrunerDeletesBeyondKeep ==
  PruneRan =>
    LET filtered == remove_ignored_versions(installed_versions).value
        beyond   == SliceFrom(filtered, VERSIONS_TO_KEEP - 1)
    IN /\ err \in {"none"} \cup DeletionErrors
       /\ to_delete = beyond
       /\ err = "none" =>
            \A i \in DOMAIN beyond : beyond[i].full_name \notin DOMAIN compat

(***************************************************************************)
(* C5: the inventory has exactly one descriptor for each listed entry      *)
(* whose name is GE-Proton<major>-<minor> and none for any other entry,    *)
(* with major and minor the integers written in the name, in ascending     *)
(* order of (major, minor).                                                *)
(***************************************************************************)
C5_InventoryExactAndSorted ==
  pc \notin {"get_paths", "get_installed_versions"} =>
    /\ \A name \in DOMAIN compat0 :
         HasVersionForm(name) =>
           Cardinality({i \in DOMAIN installed_versions :
                          installed_versions[i].full_name = name}) = 1
    /\ \A i \in DOMAIN installed_versions :
         /\ installed_versions[i].full_name \in DOMAIN compat0
         /\ HasVersionForm(installed_versions[i].full_name)
         /\ installed_versions[i].major
              = ParseInt(Group1(installed_versions[i].full_name))
         /\ installed_versions[i].minor
              = ParseInt(Group2(installed_versions[i].full_name))
    /\ \A i, j \in DOMAIN installed_versions :
         i < j => ~KeyLess(installed_versions[j], installed_versions[i])

(***************************************************************************)
(* C10: a run whose path validation, release fetch, download and           *)
(* extraction succeeded and in which no deletion failed ends without an    *)
(* exception, for every VERSIONS_TO_KEEP and every ignore list, the empty  *)
(* one included.                                                           *)
(***************************************************************************)
C10_SuccessfulRunEndsNormally ==
  (InstalledAndOver /\ PathsValid /\ Fetched) => err = "none"
====
